---- MODULE Spec2Model ----
(***************************************************************************)
(* Goodreads ETL pipeline (src/src/goodreads_etl.py).                      *)
(*                                                                         *)
(* The store is one SQLite database with two tables, books and ratings.    *)
(* run_production_etl initialises the schema, hands every .csv file of the *)
(* source folder to a thread pool running process_single_file, waits for   *)
(* the pool, builds two indexes and reads the aggregates.                  *)
(***************************************************************************)
EXTENDS Integers, Sequences, FiniteSets, TLC

(***************************************************************************)
(* Bounds of the model.                                                    *)
(***************************************************************************)
\* runs of run_production_etl against the same store
MaxRuns == 2
\* largest --workers value explored
MaxWorkers == 2
\* rows per chunk (chunksize=100000 in the source, scaled down)
ChunkSize == 2
\* environment failures (connect, read, write) injected per run
MaxFaults == 1
\* rows of a chunk handed to the Schema Mapper on its own
MaxChunkRows == 2
\* rows of a file processed on its own with two chunk sizes
MaxFileRows == 3

(***************************************************************************)
(* Text.  File names are sequences of one-character strings so that        *)
(* startswith, endswith and sorted are computed, not assumed.              *)
(***************************************************************************)
Book1 == <<"b","o","o","k","1",".","c","s","v">>
Book2 == <<"b","o","o","k","2",".","c","s","v">>
Rating0 == <<"u","s","e","r","_","r","a","t","i","n","g","_","0",".","c","s","v">>
Rating1 == <<"u","s","e","r","_","r","a","t","i","n","g","_","1",".","c","s","v">>
Notes == <<"n","o","t","e","s",".","c","s","v">>
\* a file of the folder that is not a .csv
BookTxt == <<"b","o","o","k",".","t","x","t">>

\* code points of the characters used in file names (the order sorted() uses)
Ord ==
  ("." :> 46) @@ ("0" :> 48) @@ ("1" :> 49) @@ ("2" :> 50) @@ ("_" :> 95) @@
  ("a" :> 97) @@ ("b" :> 98) @@ ("c" :> 99) @@ ("e" :> 101) @@ ("g" :> 103) @@
  ("i" :> 105) @@ ("k" :> 107) @@ ("n" :> 110) @@ ("o" :> 111) @@
  ("r" :> 114) @@ ("s" :> 115) @@ ("t" :> 116) @@ ("u" :> 117) @@
  ("v" :> 118) @@ ("x" :> 120)

\* str.startswith
StartsWith(s, p) == Len(s) >= Len(p) /\ SubSeq(s, 1, Len(p)) = p

\* str.endswith
EndsWith(s, p) ==
  Len(s) >= Len(p) /\ SubSeq(s, Len(s) - Len(p) + 1, Len(s)) = p

\* Python's < on str: lexicographic by code point, a proper prefix is smaller
RECURSIVE StrLess(_, _)
StrLess(a, b) ==
  IF b = <<>> THEN FALSE
  ELSE IF a = <<>> THEN TRUE
  ELSE IF Head(a) = Head(b) THEN StrLess(Tail(a), Tail(b))
  ELSE Ord[Head(a)] < Ord[Head(b)]

\* sorted(): the names of S in increasing order
RECURSIVE Sorted(_)
Sorted(S) ==
  IF S = {} THEN <<>>
  ELSE LET m == CHOOSE x \in S : \A y \in S \ {x} : StrLess(x, y)
       IN  <<m>> \o Sorted(S \ {m})

\* [f for f in os.listdir(folder) if f.endswith('.csv')], sorted
CsvFiles(dir) == Sorted({f \in dir : EndsWith(f, <<".","c","s","v">>)})

\* the two filename prefixes process_single_file tests, in this order
IsBookFile(f) == StartsWith(f, <<"b","o","o","k">>)
IsRatingFile(f) ==
  ~IsBookFile(f) /\ StartsWith(f, <<"u","s","e","r","_","r","a","t","i","n","g">>)

(***************************************************************************)
(* Rating labels.  A label is its lower-cased, trimmed text together with  *)
(* whether the raw cell had upper-case letters (cased) or surrounding      *)
(* whitespace (padded); na marks an empty cell, which read_csv yields as   *)
(* NaN.                                                                    *)
(***************************************************************************)
Str(t) == [na |-> FALSE, text |-> t, cased |-> FALSE, padded |-> FALSE]
Variant(t) == [na |-> FALSE, text |-> t, cased |-> TRUE, padded |-> TRUE]
NaN == [na |-> TRUE, text |-> "", cased |-> FALSE, padded |-> FALSE]

\* Series.str.lower(): NaN passes through
Lower(l) == IF l.na THEN l ELSE [l EXCEPT !.cased = FALSE]

\* Series.str.strip(): NaN passes through
Strip(l) == IF l.na THEN l ELSE [l EXCEPT !.padded = FALSE]

RATING_MAP ==
  ("it was amazing" :> 5) @@ ("really liked it" :> 4) @@ ("liked it" :> 3) @@
  ("it was ok" :> 2) @@ ("did not like it" :> 1) @@
  ("this user marked the book as \"to-read\"" :> 0)

\* the keys of RATING_MAP as labels: exact lower-case text, no padding
IsKey(l) == ~l.na /\ ~l.cased /\ ~l.padded /\ l.text \in DOMAIN RATING_MAP

\* Series.map(RATING_MAP).fillna(0): exact-match lookup, 0 when unmatched
MapFillna(l) == IF IsKey(l) THEN RATING_MAP[l.text] ELSE 0

\* the whole of line 71 for one cell
RatingInt(l) == MapFillna(Strip(Lower(l)))

(***************************************************************************)
(* The source folder.  Every file has a fixed content; a run sees some of  *)
(* the files.  Cells are the text of the CSV cell, "" an empty cell.       *)
(***************************************************************************)
FileNames == {Book1, Book2, Rating0, Rating1, Notes, BookTxt}

BookRow(id, name, rating) == [Id |-> id, Name |-> name, Rating |-> rating]
RatingRow(name, user, label) == [Name |-> name, ID |-> user, Rating |-> label]

FileRows(f) ==
  CASE f = Book1 ->
         << BookRow("1", "Dune", "4.5"),
            BookRow("2", "", "3.0"),
            BookRow("abc", "BadId", "2.0"),
            BookRow("1", "Ubik", "4") >>
    [] f = Book2 ->
         << BookRow("1", "Emma", "x"),
            BookRow("2", "Emma", "3.0") >>
    [] f = Rating0 ->
         << RatingRow("Dune", "u1", Str("it was amazing")),
            RatingRow("Emma", "u2", Str("unknown text")),
            RatingRow("", "u3", Str("liked it")),
            RatingRow("Ubik", "", Str("liked it")) >>
    [] f = Rating1 ->
         << RatingRow("Dune", "u1", Variant("it was amazing")),
            RatingRow("Dune", "u4", NaN),
            RatingRow("Emma", "u5", NaN) >>
    [] f = Notes ->
         << BookRow("9", "Memo", "1.0") >>
    [] OTHER -> << >>

\* the chunks pd.read_csv(..., chunksize=n) yields for a file with rows
RECURSIVE Chunks(_, _)
Chunks(rows, n) ==
  IF Len(rows) <= n THEN <<rows>>
  ELSE <<SubSeq(rows, 1, n)>> \o Chunks(SubSeq(rows, n + 1, Len(rows)), n)

FileChunks(f) == Chunks(FileRows(f), ChunkSize)

(***************************************************************************)
(* Schema Mapper (process_single_file, lines 56-79).                       *)
(***************************************************************************)
NULL == "NULL"

\* the Id cells pd.to_numeric parses, with their value
Numeric == ("1" :> 1) @@ ("2" :> 2) @@ ("9" :> 9)

\* how SQLite's TEXT affinity stores an INTEGER and a REAL of that value
IntText == (1 :> "1") @@ (2 :> "2") @@ (9 :> "9")
RealText == (1 :> "1.0") @@ (2 :> "2.0") @@ (9 :> "9.0")

\* the Rating cells pd.to_numeric parses, as the REAL the column stores
RealOf == ("4.5" :> "4.5") @@ ("3.0" :> "3.0") @@ ("2.0" :> "2.0") @@
          ("1.0" :> "1.0") @@ ("4" :> "4.0")

\* pd.to_numeric(chunk['Rating'], errors='coerce') for one cell
ToReal(s) == IF s \in DOMAIN RealOf THEN RealOf[s] ELSE NULL

\* the Id column of a chunk is int64 only when every cell parses as an
\* integer; one empty or non-numeric cell makes the whole column float64
IntColumn(chunk) == \A i \in 1..Len(chunk) : chunk[i].Id \in DOMAIN Numeric

\* book_id as stored for one surviving row of the chunk
BookKey(chunk, row) ==
  IF IntColumn(chunk) THEN IntText[Numeric[row.Id]]
  ELSE RealText[Numeric[row.Id]]

\* dropna(subset=['Id']): a row without a title survives
BookRowKeptIdOnly(row) == row.Id \in DOMAIN Numeric

\* dropna(subset=['Id', 'Name']) after the coercion of Id
BookRowKept(row) == row.Id \in DOMAIN Numeric /\ row.Name # ""

\* lines 58-64: the clean chunk of a book file
RECURSIVE BookClean(_, _)
BookClean(chunk, rest) ==
  IF rest = <<>> THEN <<>>
  ELSE LET row == Head(rest)
       IN  (IF BookRowKept(row)
            THEN << [book_id |-> BookKey(chunk, row),
                     title |-> row.Name,
                     avg_rating |-> ToReal(row.Rating)] >>
            ELSE <<>>)
           \o BookClean(chunk, Tail(rest))

\* the .str accessor exists only on a column that holds text: a chunk whose
\* Rating cells are all empty is float64 and .str raises AttributeError
StrAccessorRaises(chunk) ==
  chunk # <<>> /\ \A i \in 1..Len(chunk) : chunk[i].Rating.na

\* dropna(subset=['Name']): a row without a user survives
RatingRowKeptNameOnly(row) == row.Name # ""

\* dropna(subset=['Name', 'ID'])
RatingRowKept(row) == row.Name # "" /\ row.ID # ""

\* lines 71-76: the clean chunk of a rating file
RECURSIVE RatingClean(_)
RatingClean(rest) ==
  IF rest = <<>> THEN <<>>
  ELSE LET row == Head(rest)
       IN  (IF RatingRowKept(row)
            THEN << [book_title |-> row.Name,
                     user_id |-> row.ID,
                     rating_text |-> row.Rating,
                     rating_int |-> RatingInt(row.Rating)] >>
            ELSE <<>>)
           \o RatingClean(Tail(rest))

(***************************************************************************)
(* Writes to the store.                                                    *)
(***************************************************************************)
\* the table is the sequence of its rows in rowid order; error is set when
\* a statement raises
HasKey(tbl, id) == \E i \in 1..Len(tbl.rows) : tbl.rows[i].book_id = id

\* INSERT OR REPLACE: the stored row is deleted and the new one inserted
InsertOrReplace(tbl, row) ==
  [tbl EXCEPT !.rows =
     Append(SelectSeq(@, LAMBDA r : r.book_id # row.book_id), row)]

\* no uniqueness on book_id: every row is stored
InsertAlways(tbl, row) == [tbl EXCEPT !.rows = Append(@, row)]

\* INSERT OR IGNORE INTO books: book_id is the primary key, and a row whose
\* book_id is already stored is discarded without an error
InsertRow(tbl, row) ==
  IF HasKey(tbl, row.book_id) THEN tbl
  ELSE [tbl EXCEPT !.rows = Append(@, row)]

\* conn.executemany(sql, data_iter): the rows of the chunk in order
RECURSIVE ExecuteMany(_, _)
ExecuteMany(tbl, rows) ==
  IF rows = <<>> \/ tbl.error THEN tbl
  ELSE ExecuteMany(InsertRow(tbl, Head(rows)), Tail(rows))

\* clean_chunk.to_sql('books', ..., method=insert_ignore): one transaction,
\* rolled back when a statement raises
insert_ignore(bks, rows) ==
  LET out == ExecuteMany([rows |-> bks, error |-> FALSE], rows)
  IN  IF out.error THEN [rows |-> bks, error |-> TRUE] ELSE out

\* clean_chunk.to_sql('ratings', ..., if_exists='append'): rating_id is
\* AUTOINCREMENT, the next integer after the largest used
RECURSIVE AppendRatings(_, _)
AppendRatings(rts, rows) ==
  IF rows = <<>> THEN rts
  ELSE AppendRatings(
         Append(rts, [rating_id |-> Len(rts) + 1,
                      book_title |-> Head(rows).book_title,
                      user_id |-> Head(rows).user_id,
                      rating_text |-> Head(rows).rating_text,
                      rating_int |-> Head(rows).rating_int]),
         Tail(rows))

\* the count of the rows the chunk really added to its table
CountedWritten(clean, added) == added

\* total_processed += len(clean_chunk): the rows handed to to_sql, of which
\* added were new rows of the table
Counted(clean, added) == Len(clean)

\* one iteration of the chunk loop (lines 56-79) on the tables bks and rts:
\* the exception it raises ("" for none), the tables after it, the rows it
\* adds to total_processed and the type_label it binds ("" for none)
ChunkStep(bks, rts, f, chunk) ==
  IF IsBookFile(f)
  THEN LET clean == BookClean(chunk, chunk)
           out == insert_ignore(bks, clean)
       IN  IF out.error
           THEN [exc |-> "IntegrityError", books |-> bks, ratings |-> rts,
                 n |-> 0, label |-> ""]
           ELSE [exc |-> "", books |-> out.rows, ratings |-> rts,
                 n |-> Counted(clean, Len(out.rows) - Len(bks)),
                 label |-> "books"]
  ELSE IF IsRatingFile(f)
  THEN IF StrAccessorRaises(chunk)
       THEN [exc |-> "AttributeError", books |-> bks, ratings |-> rts,
             n |-> 0, label |-> ""]
       ELSE LET clean == RatingClean(chunk)
            IN  [exc |-> "", books |-> bks,
                 ratings |-> AppendRatings(rts, clean),
                 n |-> Counted(clean, Len(clean)), label |-> "ratings"]
  ELSE [exc |-> "", books |-> bks, ratings |-> rts, n |-> 0, label |-> ""]

(***************************************************************************)
(* State.                                                                  *)
(***************************************************************************)
VARIABLES
  books,      \* the books table: sequence of rows in rowid order
  ratings,    \* the ratings table: sequence of rows in rating_id order
  indexes,    \* names of the indexes that exist
  folder,     \* the files in args.folder as the current run found them
  workers,    \* args.workers of the current run
  run,        \* number of runs of run_production_etl started so far
  pc,         \* where run_production_etl is
  queue,      \* work items of the executor not yet taken by a thread
  task,       \* per pool thread: its call of process_single_file
  result,     \* per file: the future executor.map made for it
  faults,     \* environment failures injected in this run
  books0,     \* history: the books table when this run started
  loaded,     \* history: files some call has processed to its return
  insights,   \* books_count and ratings_count as read by the last run
  probe       \* a component applied on its own: its input and its output

\* the state of the pipeline
progVars == <<books, ratings, indexes, folder, workers, run, pc, queue, task,
              result, faults, books0, loaded, insights>>

vars == <<progVars, probe>>

Threads == 1..MaxWorkers

\* the folders a run can find
Folders ==
  { {Book1, Book2, Rating0, Rating1, BookTxt},
    {Book1, Book2, Rating0},
    {Book2, Rating1, Notes, BookTxt},
    {BookTxt} }

IdleTask == [file |-> <<>>, pc |-> "idle", k |-> 0, conn |-> "none",
             total_processed |-> 0, type_label |-> "", written |-> 0]

NoFuture == [state |-> "none", value |-> 0, exc |-> "", written |-> 0]

\* no component is applied on its own
NoProbe == [stage |-> "none"]

\* the pipeline before its first run
InitStore ==
  /\ books = <<>>
  /\ ratings = <<>>
  /\ indexes = {}
  /\ folder = {}
  /\ workers = 1
  /\ run = 0
  /\ pc = "start"
  /\ queue = <<>>
  /\ task = [w \in Threads |-> IdleTask]
  /\ result = [f \in FileNames |-> NoFuture]
  /\ faults = 0
  /\ books0 = <<>>
  /\ loaded = {}
  /\ insights = [books_count |-> 0, ratings_count |-> 0, df_top |-> <<>>]

Init == InitStore /\ probe = NoProbe

(***************************************************************************)
(* run_production_etl: schema initialisation and dispatch (lines 93-113).  *)
(***************************************************************************)
\* DROP TABLE IF EXISTS books, then CREATE TABLE books
RecreateBooks(bks) == <<>>

\* CREATE TABLE IF NOT EXISTS books: an existing table is left as it is
InitBooks(bks) == bks

\* CREATE TABLE IF NOT EXISTS ratings
KeepRatings(rts) == rts

\* DROP TABLE IF EXISTS ratings, then CREATE TABLE ratings
InitRatings(rts) == <<>>

\* only as many work items as there are threads
DispatchFirst(files, n) == SubSeq(files, 1, IF n < Len(files) THEN n ELSE Len(files))

\* executor.map submits one work item per file, whatever max_workers is
Dispatch(files, n) == files

Range(q) == {q[i] : i \in 1..Len(q)}

\* the program is started, a new process with its own --workers, on
\* whatever the folder then holds: lines 93-113, up to the submission of the
\* work items
StartRun ==
  /\ pc \in {"start", "done"}
  /\ run < MaxRuns
  /\ run' = run + 1
  /\ folder' \in Folders
  /\ workers' \in 1..MaxWorkers
  /\ books' = InitBooks(books)
  /\ ratings' = InitRatings(ratings)
  /\ indexes' = indexes \ {"idx_rating_title"}
  /\ queue' = Dispatch(CsvFiles(folder'), workers')
  /\ result' = [f \in FileNames |->
                  IF f \in Range(queue')
                  THEN [NoFuture EXCEPT !.state = "pending"]
                  ELSE NoFuture]
  /\ task' = [w \in Threads |-> IdleTask]
  /\ faults' = 0
  /\ books0' = books'
  /\ insights' = [books_count |-> 0, ratings_count |-> 0, df_top |-> <<>>]
  /\ pc' = "pool"
  /\ UNCHANGED loaded
  /\ UNCHANGED probe

(***************************************************************************)
(* process_single_file, run by a pool thread (lines 48-85).                *)
(***************************************************************************)
\* no finally clause: the connection stays as it is
NoFinally(t) == t

\* finally: conn.close()
Finally(t) == [t EXCEPT !.conn = "closed"]

\* the thread after its call has ended: the locals are gone, the connection
\* object is in the state the call left it in
CallEnded(t) == [IdleTask EXCEPT !.conn = t.conn]

\* one transaction for the whole file, rolled back when the call raises:
\* the n rows the call has added are removed
RolledBack(tbl, n) == SubSeq(tbl, 1, Len(tbl) - n)

\* to_sql committed every chunk it wrote, and neither the except-free try
\* nor conn.close() undoes a commit: the table keeps the n rows the call
\* has added
KeptOnRaise(tbl, n) == tbl

\* the call ends with an exception, which the future keeps
Raise(w, exc) ==
  /\ task' = [task EXCEPT ![w] = CallEnded(Finally(@))]
  /\ result' = [result EXCEPT ![task[w].file] =
                  [state |-> "raised", value |-> 0, exc |-> exc,
                   written |-> task[w].written]]
  /\ books' = KeptOnRaise(books, IF IsBookFile(task[w].file)
                                 THEN task[w].written ELSE 0)
  /\ ratings' = KeptOnRaise(ratings, IF IsRatingFile(task[w].file)
                                     THEN task[w].written ELSE 0)

\* a pool that starts a thread for every work item, whatever max_workers
CanTakeUnbounded(w) ==
  /\ task[w].pc = "idle"
  /\ \A v \in 1..(w - 1) : task[v].pc # "idle"

\* the pool has max_workers threads; they are interchangeable, so the idle
\* thread that takes a work item is taken to be the lowest-numbered one
CanTake(w) ==
  /\ w <= workers
  /\ task[w].pc = "idle"
  /\ \A v \in 1..(w - 1) : task[v].pc # "idle"

\* an idle thread takes the next work item; sqlite3.connect succeeds
Start(w) ==
  /\ pc = "pool"
  /\ CanTake(w)
  /\ queue # <<>>
  /\ queue' = Tail(queue)
  /\ task' = [task EXCEPT ![w] =
                [file |-> Head(queue), pc |-> "loop", k |-> 0, conn |-> "open",
                 total_processed |-> 0, type_label |-> "", written |-> 0]]
  /\ result' = [result EXCEPT ![Head(queue)].state = "running"]
  /\ UNCHANGED <<books, ratings, indexes, folder, workers, run, pc, faults,
                 books0, loaded, insights>>
  /\ UNCHANGED probe

\* an idle thread takes the next work item; sqlite3.connect raises before
\* the try block, so there is no connection to close
StartFails(w) ==
  /\ pc = "pool"
  /\ CanTake(w)
  /\ queue # <<>>
  /\ faults < MaxFaults
  /\ faults' = faults + 1
  /\ queue' = Tail(queue)
  /\ task' = [task EXCEPT ![w] = IdleTask]
  /\ result' = [result EXCEPT ![Head(queue)] =
                  [state |-> "raised", value |-> 0, exc |-> "OperationalError",
                   written |-> 0]]
  /\ UNCHANGED <<books, ratings, indexes, folder, workers, run, pc, books0,
                 loaded, insights>>
  /\ UNCHANGED probe

\* one iteration of the loop over the chunks of the file
ProcessChunk(w) ==
  /\ task[w].pc = "loop"
  /\ task[w].k < Len(FileChunks(task[w].file))
  /\ \E chunk \in {FileChunks(task[w].file)[task[w].k + 1]} :
     \E step \in {ChunkStep(books, ratings, task[w].file, chunk)} :
         IF step.exc # ""
         THEN Raise(w, step.exc)
         ELSE /\ books' = step.books
              /\ ratings' = step.ratings
              /\ task' = [task EXCEPT
                   ![w].k = @ + 1,
                   ![w].total_processed = @ + step.n,
                   ![w].written = @ + (Len(step.books) - Len(books))
                                    + (Len(step.ratings) - Len(ratings)),
                   ![w].type_label = IF step.label = "" THEN @ ELSE step.label]
              /\ UNCHANGED result
  /\ UNCHANGED <<indexes, folder, workers, run, pc, queue, faults, books0,
                 loaded, insights>>
  /\ UNCHANGED probe

\* the environment fails the iteration: pd.read_csv cannot open the source
\* file (OSError, before the first chunk), or the store refuses the write of
\* the chunk (OperationalError, the transaction of the chunk is rolled back)
ChunkFails(w) ==
  /\ task[w].pc = "loop"
  /\ task[w].k < Len(FileChunks(task[w].file))
  /\ faults < MaxFaults
  /\ faults' = faults + 1
  /\ \/ task[w].k = 0 /\ Raise(w, "OSError")
     \/ /\ IsBookFile(task[w].file) \/ IsRatingFile(task[w].file)
        /\ Raise(w, "OperationalError")
  /\ UNCHANGED <<indexes, folder, workers, run, pc, queue, books0, loaded,
                 insights>>
  /\ UNCHANGED probe

\* after the loop: the log line reads type_label, which no iteration has
\* bound for a file of neither prefix; then finally, then return
Finish(w) ==
  /\ task[w].pc = "loop"
  /\ task[w].k = Len(FileChunks(task[w].file))
  /\ IF task[w].type_label = ""
     THEN /\ Raise(w, "UnboundLocalError")
          /\ UNCHANGED loaded
     ELSE /\ task' = [task EXCEPT ![w] = CallEnded(Finally(@))]
          /\ result' = [result EXCEPT ![task[w].file] =
                          [state |-> "returned",
                           value |-> task[w].total_processed, exc |-> "",
                           written |-> task[w].written]]
          /\ loaded' = loaded \cup {task[w].file}
          /\ UNCHANGED <<books, ratings>>
  /\ UNCHANGED <<indexes, folder, workers, run, pc, queue, faults, books0,
                 insights>>
  /\ UNCHANGED probe

(***************************************************************************)
(* run_production_etl after dispatch (lines 112-140).                      *)
(***************************************************************************)
\* executor.shutdown(wait=False): nothing is waited for
NoWait(q, t) == TRUE

\* a join that waits until every file of the folder has been loaded
PoolDrainedOnSuccess(q, t) ==
  /\ q = <<>>
  /\ \A w \in Threads : t[w].pc = "idle"
  /\ \A f \in Range(CsvFiles(folder)) : result[f].state = "returned"

\* leaving the with block is executor.shutdown(wait=True)
PoolDrained(q, t) == q = <<>> /\ \A w \in Threads : t[w].pc = "idle"

\* list(executor.map(...)): the first exception a call raised is re-raised
PoolExitReraise(res) ==
  IF \E f \in DOMAIN res : res[f].state = "raised" THEN "aborted" ELSE "index"

\* the iterator executor.map returns is never consumed, so no exception a
\* call raised is re-raised in run_production_etl
PoolExit(res) == "index"

JoinAll ==
  /\ pc = "pool"
  /\ PoolDrained(queue, task)
  /\ pc' = PoolExit(result)
  /\ UNCHANGED <<books, ratings, indexes, folder, workers, run, queue, task,
                 result, faults, books0, loaded, insights>>
  /\ UNCHANGED probe

\* CREATE INDEX IF NOT EXISTS on books(title) and ratings(book_title)
BuildIndexes ==
  /\ pc = "index"
  /\ indexes' = indexes \cup {"idx_book_title", "idx_rating_title"}
  /\ pc' = "insights"
  /\ UNCHANGED <<books, ratings, folder, workers, run, queue, task, result,
                 faults, books0, loaded, insights>>
  /\ UNCHANGED probe

\* LIMIT 5
TopLimit == 5

\* books b JOIN ratings r ON b.title = r.book_title: the pairs of a book
\* row and a rating row of title t
Joined(bks, rts, t) ==
  { <<i, j>> \in (1..Len(bks)) \X (1..Len(rts)) :
      bks[i].title = t /\ rts[j].book_title = t }

\* COUNT(r.rating_id) of the group of title t: rating_id is never null
Reviews(bks, rts, t) == Cardinality(Joined(bks, rts, t))

\* GROUP BY b.title: the titles with at least one joined row
Groups(bks, rts) ==
  { t \in {bks[i].title : i \in 1..Len(bks)} : Joined(bks, rts, t) # {} }

\* ORDER BY reviews DESC LIMIT 5: every result the query can return; the
\* order among groups of equal count is not determined
TopResults(bks, rts) ==
  LET groups == Groups(bks, rts)
      k == IF Cardinality(groups) < TopLimit THEN Cardinality(groups)
           ELSE TopLimit
  IN  { [i \in 1..k |-> [title |-> s[i], reviews |-> Reviews(bks, rts, s[i])]] :
          s \in { s \in [1..k -> groups] :
                    /\ \A i, j \in 1..k : i # j => s[i] # s[j]
                    /\ \A i, j \in 1..k :
                         i < j => Reviews(bks, rts, s[i]) >= Reviews(bks, rts, s[j])
                    /\ \A t \in groups : \A i \in 1..k :
                         (\A j \in 1..k : s[j] # t)
                           => Reviews(bks, rts, t) <= Reviews(bks, rts, s[i]) } }

\* SELECT COUNT(*) FROM books, SELECT COUNT(*) FROM ratings, and the query
\* of the most reviewed titles
Insights ==
  /\ pc = "insights"
  /\ \E top \in TopResults(books, ratings) :
       insights' = [books_count |-> Len(books), ratings_count |-> Len(ratings),
                    df_top |-> top]
  /\ pc' = "done"
  /\ UNCHANGED <<books, ratings, indexes, folder, workers, run, queue, task,
                 result, faults, books0, loaded>>
  /\ UNCHANGED probe

Next ==
  \/ StartRun
  \/ \E w \in Threads : Start(w)
  \/ \E w \in Threads : StartFails(w)
  \/ \E w \in Threads : ProcessChunk(w)
  \/ \E w \in Threads : ChunkFails(w)
  \/ \E w \in Threads : Finish(w)
  \/ JoinAll
  \/ BuildIndexes
  \/ Insights

Spec == Init /\ [][Next]_vars

(***************************************************************************)
(* Reference: the same files processed one after another by one thread,    *)
(* with no failure of the environment.                                     *)
(***************************************************************************)
\* process_single_file on the chunks cs of f, alone on the store
RECURSIVE SeqChunks(_, _, _)
SeqChunks(store, f, cs) ==
  IF cs = <<>> THEN store
  ELSE LET step == ChunkStep(store.books, store.ratings, f, Head(cs))
       IN  IF step.exc # "" THEN store
           ELSE SeqChunks([books |-> step.books, ratings |-> step.ratings],
                          f, Tail(cs))

\* the pool with one thread: the files in the order they were submitted
RECURSIVE Sequential(_, _)
Sequential(store, files) ==
  IF files = <<>> THEN store
  ELSE Sequential(SeqChunks(store, Head(files), FileChunks(Head(files))),
                  Tail(files))

\* the rows a rating file holds that pass validation, chunk by chunk
RECURSIVE CleanRatingRows(_)
CleanRatingRows(cs) ==
  IF cs = <<>> THEN <<>>
  ELSE RatingClean(Head(cs)) \o CleanRatingRows(Tail(cs))

\* the same for the rating files among files
RECURSIVE RatingRowsOf(_)
RatingRowsOf(files) ==
  IF files = <<>> THEN <<>>
  ELSE (IF IsRatingFile(Head(files))
        THEN CleanRatingRows(FileChunks(Head(files))) ELSE <<>>)
       \o RatingRowsOf(Tail(files))

\* the row of the ratings table without its rating_id
Content(r) == [book_title |-> r.book_title, user_id |-> r.user_id,
               rating_text |-> r.rating_text, rating_int |-> r.rating_int]

BookIds(bks) == {bks[i].book_id : i \in 1..Len(bks)}

PoolIsDone == pc \in {"index", "insights", "done"}

(***************************************************************************)
(* Claims.                                                                 *)
(***************************************************************************)

C2_SameCountsAsSequential ==
  (PoolIsDone /\ faults = 0 /\ workers < Len(CsvFiles(folder)))
    => LET seq == Sequential([books |-> books0, ratings |-> <<>>],
                             CsvFiles(folder))
       IN  /\ Len(books) = Len(seq.books)
           /\ Len(ratings) = Len(seq.ratings)

\* two threads, at least three files, and the tables differ from the
\* sequential ones in more than their row order
C2_Witness ==
  /\ PoolIsDone /\ faults = 0
  /\ workers > 1 /\ workers < Len(CsvFiles(folder))
  /\ LET seq == Sequential([books |-> books0, ratings |-> <<>>],
                           CsvFiles(folder))
     IN  /\ Range(books) # Range(seq.books)
         /\ ratings # seq.ratings
         /\ Len(books) > Len(books0)

C4_RatingsOnlyFromThisRun ==
  LET rows == RatingRowsOf(CsvFiles(folder))
  IN  \A i \in 1..Len(ratings) :
        /\ ratings[i].rating_id = i
        /\ Cardinality({j \in 1..Len(ratings) :
                         Content(ratings[j]) = Content(ratings[i])})
             <= Cardinality({j \in 1..Len(rows) :
                         rows[j] = Content(ratings[i])})

\* a later run has finished with ratings of its own, and a rating file loaded
\* by an earlier run is not in its folder
C4_Witness ==
  /\ run > 1 /\ pc = "done"
  /\ ratings # <<>>
  /\ \E f \in loaded : IsRatingFile(f) /\ f \notin folder

\* C5: books accumulate across runs.  No step removes a book identifier from
\* the books table.
C5_BooksNeverShrink ==
  [][BookIds(books) \subseteq BookIds(books')]_vars

\* a later run has finished on a folder without book files and the table
\* still holds the books of an earlier run
C5_Witness ==
  /\ run > 1 /\ pc = "done"
  /\ \A f \in folder : ~IsBookFile(f) \/ ~EndsWith(f, <<".","c","s","v">>)
  /\ books # <<>>

\* C6: an unrecognized file is skipped.  A call of process_single_file on a
\* file of neither prefix that has ended without a failure of the
\* environment has written nothing, and has returned 0.
C6_UnrecognizedFileSkipped ==
  \A f \in FileNames :
    ( /\ ~IsBookFile(f) /\ ~IsRatingFile(f)
      /\ result[f].state \in {"returned", "raised"}
      /\ result[f].exc \notin {"OSError", "OperationalError"} )
    => result[f].state = "returned" /\ result[f].value = 0

\* C7: failure isolation.  run_production_etl never aborts, and once the
\* pool has drained every file that was dispatched has been processed to its
\* own end, whatever the other calls raised.
C7_FailureIsolation ==
  /\ pc # "aborted"
  /\ PoolIsDone =>
       \A f \in Range(CsvFiles(folder)) :
         result[f].state \in {"returned", "raised"}

\* the run has reached its end although one call raised, and another call
\* has returned the rows it wrote
C7_Witness ==
  /\ pc = "done"
  /\ \E f \in FileNames : result[f].state = "raised"
  /\ \E f \in FileNames : result[f].state = "returned" /\ result[f].value > 0

\* C8: scoped connection release.  A thread that is not inside a call of
\* process_single_file holds no open connection, so none is open once the
\* pool has drained.
C8_ConnectionsReleased ==
  /\ \A w \in Threads : task[w].pc = "idle" => task[w].conn # "open"
  /\ pc # "pool" => \A w \in Threads : task[w].conn # "open"

\* the pool has drained after a call raised inside its try block, and every
\* thread that ran a call has closed its connection
C8_Witness ==
  /\ PoolIsDone
  /\ \E f \in FileNames :
       result[f].exc \in {"OSError", "AttributeError", "UnboundLocalError"}
  /\ \E f \in FileNames : result[f].state = "returned"
  /\ \A w \in Threads : w <= workers => task[w].conn = "closed"

\* C9: join-all barrier.  While run_production_etl builds the indexes or
\* reads the aggregates, no work item is waiting and no thread is inside a
\* call, and the indexes on ratings exist only after the pool has drained.
C9_JoinAllBarrier ==
  /\ PoolIsDone =>
       /\ queue = <<>>
       /\ \A w \in Threads : task[w].pc = "idle"
  /\ "idx_rating_title" \in indexes => pc \in {"insights", "done"}

\* the indexes are built after a run in which two threads wrote rows
C9_Witness ==
  /\ pc = "insights"
  /\ indexes = {"idx_book_title", "idx_rating_title"}
  /\ workers > 1
  /\ books # <<>> /\ ratings # <<>>

\* the integers the specification documents for the six labels
Documented ==
  ("it was amazing" :> 5) @@ ("really liked it" :> 4) @@ ("liked it" :> 3) @@
  ("it was ok" :> 2) @@ ("did not like it" :> 1) @@
  ("this user marked the book as \"to-read\"" :> 0)

\* labels outside the vocabulary: empty, missing, unknown, and variants of
\* valid labels in case and whitespace
OtherLabels ==
  {Str(""), NaN, Str("unknown text"), Str("it  was amazing")}
    \cup {[Str(k) EXCEPT !.cased = TRUE] : k \in DOMAIN Documented}
    \cup {[Str(k) EXCEPT !.padded = TRUE] : k \in DOMAIN Documented}
    \cup {Variant(k) : k \in DOMAIN Documented}

\* C10: Rating Normalizer.  The lookup returns the documented integer for
\* each of the six labels and 0 for every other label; normalizing the
\* labels of a chunk never raises; and every stored rating_int is in 0..5.
C10_NormalizerTotal ==
  /\ \A k \in DOMAIN Documented : MapFillna(Str(k)) = Documented[k]
  /\ \A l \in OtherLabels : MapFillna(l) = 0
  /\ \A f \in FileNames : result[f].exc # "AttributeError"
  /\ \A i \in 1..Len(ratings) : ratings[i].rating_int \in 0..5

(***************************************************************************)
(* The Schema Mapper of book chunks applied on its own to every chunk of   *)
(* at most MaxChunkRows rows over the sample cells.                        *)
(***************************************************************************)
SampleIds == {"1", "2", "abc", ""}
SampleNames == {"Dune", "Emma", ""}
SampleRatings == {"4.5", "x"}

SampleBookRows ==
  { BookRow(id, name, rating) :
      id \in SampleIds, name \in SampleNames, rating \in SampleRatings }

SampleBookChunks ==
  UNION { [1..n -> SampleBookRows] : n \in 0..MaxChunkRows }

MapperInit ==
  /\ InitStore
  /\ probe \in { [stage |-> "chunk", chunk |-> c, out |-> <<>>] :
                   c \in SampleBookChunks }

\* lines 58-64 on the chunk
MapChunk ==
  /\ probe.stage = "chunk"
  /\ probe' = [probe EXCEPT !.stage = "mapped",
                            !.out = BookClean(probe.chunk, probe.chunk)]
  /\ UNCHANGED progVars

MapperNext == MapChunk

MapperSpec == MapperInit /\ [][MapperNext]_vars

\* the input rows with a numeric identifier and a title, in input order
Valid(chunk) ==
  SelectSeq(chunk, LAMBDA r : r.Id \in {"1", "2"} /\ r.Name # "")

\* C11: on every book chunk the Schema Mapper outputs a row exactly for the
\* input rows whose identifier is numeric and whose title is present, in
\* input order and with the row's title; a non-numeric average rating does
\* not exclude the row, it is stored as null; the surviving rows and the
\* quarantined rows together are the input rows.
C11_MapperKeepsValidRows ==
  probe.stage = "mapped" =>
    LET valid == Valid(probe.chunk)
        quarantined ==
          Cardinality({ i \in 1..Len(probe.chunk) :
                          probe.chunk[i].Id \notin {"1", "2"}
                          \/ probe.chunk[i].Name = "" })
    IN  /\ Len(probe.out) = Len(valid)
        /\ \A i \in 1..Len(valid) :
             /\ probe.out[i].title = valid[i].Name
             /\ Numeric[valid[i].Id] \in {1, 2}
             /\ probe.out[i].book_id \in
                  {IntText[Numeric[valid[i].Id]], RealText[Numeric[valid[i].Id]]}
             /\ probe.out[i].avg_rating =
                  (IF valid[i].Rating = "x" THEN NULL ELSE "4.5")
        /\ Len(probe.out) + quarantined = Len(probe.chunk)

\* a chunk with a kept row whose rating is not numeric, a row without a
\* title and a row whose identifier is not numeric has been mapped
C11_Witness ==
  /\ probe.stage = "mapped"
  /\ probe.chunk = << BookRow("1", "Dune", "x"), BookRow("2", "", "4.5") >>
  /\ probe.out = << [book_id |-> "1", title |-> "Dune", avg_rating |-> NULL] >>

(***************************************************************************)
(* process_single_file applied on its own to one file of at most           *)
(* MaxFileRows rows, once with each of two chunk sizes, on an empty store. *)
(***************************************************************************)
SampleFileRows(f) ==
  IF IsBookFile(f)
  THEN { BookRow(id, name, "4.5") : id \in {"1", "abc"}, name \in {"Dune", "Ubik"} }
  ELSE { RatingRow("Dune", "u1", l) : l \in {Str("liked it"), NaN} }

SampleFiles(f) ==
  UNION { [1..n -> SampleFileRows(f)] : n \in 0..MaxFileRows }

EmptyStore == [books |-> <<>>, ratings |-> <<>>]

ChunkInit ==
  /\ InitStore
  /\ probe \in { [stage |-> "file", file |-> f, rows |-> rows,
                  n1 |-> n1, n2 |-> n2, a |-> EmptyStore, b |-> EmptyStore] :
                   f \in {Book1, Rating0}, rows \in SampleFiles(Book1) \cup SampleFiles(Rating0),
                   n1 \in 1..MaxFileRows, n2 \in 1..MaxFileRows }
  /\ probe.rows \in SampleFiles(probe.file)
  /\ probe.n1 < probe.n2

\* the chunk loop of lines 55-79 over the file read with chunksize n1, and
\* over the same file read with chunksize n2
ProcessBoth ==
  /\ probe.stage = "file"
  /\ probe' = [probe EXCEPT
       !.stage = "processed",
       !.a = SeqChunks(EmptyStore, probe.file, Chunks(probe.rows, probe.n1)),
       !.b = SeqChunks(EmptyStore, probe.file, Chunks(probe.rows, probe.n2))]
  /\ UNCHANGED progVars

ChunkNext == ProcessBoth

ChunkSpec == ChunkInit /\ [][ChunkNext]_vars

\* C12: a file processed with two chunk sizes on the same initial store
\* leaves the same books and the same ratings: the same rows are dropped,
\* the surviving rows are transformed alike, and of the rows of a repeated
\* book identifier the earliest in file order is the one retained.
C12_ChunkSizeIndependent ==
  probe.stage = "processed" => probe.a = probe.b

\* C13: in every state, under any chunking and any interleaving of
\* workers, every row of ratings has a book_title and a user_id that are
\* not null: an input row missing either is never inserted.
C13_RatingsRowsValid ==
  \A i \in 1..Len(ratings) :
    /\ ratings[i].book_title # ""
    /\ ratings[i].user_id # ""
    /\ \E f \in Range(CsvFiles(folder)) : \E j \in 1..Len(FileRows(f)) :
         /\ IsRatingFile(f)
         /\ FileRows(f)[j].Name = ratings[i].book_title
         /\ FileRows(f)[j].ID = ratings[i].user_id

\* user_rating_0.csv, which holds a row without a title and a row without
\* a user, has been processed to its end and its other rows are stored
C13_Witness ==
  /\ result[Rating0].state = "returned"
  /\ \E i \in 1..Len(ratings) : ratings[i].user_id = "u2"
  /\ \E j \in 1..Len(FileRows(Rating0)) : FileRows(Rating0)[j].Name = ""
  /\ \E j \in 1..Len(FileRows(Rating0)) : FileRows(Rating0)[j].ID = ""

\* C14: ratings are appended and never deduplicated.  When the pool of a
\* run without a failure of the environment has drained, every valid
\* rating row of every rating file of the folder has its own row in
\* ratings: the number of rows of ratings is the number of valid rating
\* input rows over all rating files, and a (user, title) pair is stored as
\* many times as the files hold it.
C14_EveryValidRatingStored ==
  (PoolIsDone /\ faults = 0) =>
    LET valid == RatingRowsOf(CsvFiles(folder))
    IN  /\ Len(ratings) = Len(valid)
        /\ \A j \in 1..Len(valid) :
             Cardinality({ i \in 1..Len(ratings) :
                             /\ ratings[i].book_title = valid[j].book_title
                             /\ ratings[i].user_id = valid[j].user_id })
             = Cardinality({ i \in 1..Len(valid) :
                               /\ valid[i].book_title = valid[j].book_title
                               /\ valid[i].user_id = valid[j].user_id })

\* the rating rows whose book_title is t
RatingRowsOfTitle(t) == { j \in 1..Len(ratings) : ratings[j].book_title = t }

\* C15: whatever books and ratings hold at the end of a run (titles need
\* not be unique across book identifiers), the query of the most reviewed
\* titles returns at most 5 titles in non-increasing order of count, the
\* count reported for a title is the number of rating rows whose
\* book_title is that title, and no title left out has a strictly larger
\* count than a returned one.
C15_TopFiveByRatingCount ==
  pc = "done" =>
    LET top == insights.df_top
    IN  /\ Len(top) <= TopLimit
        /\ \A i, j \in 1..Len(top) : i < j => top[i].reviews >= top[j].reviews
        /\ \A i \in 1..Len(top) :
             top[i].reviews = Cardinality(RatingRowsOfTitle(top[i].title))
        /\ \A t \in {books[i].title : i \in 1..Len(books)} :
             (\A i \in 1..Len(top) : top[i].title # t)
               => \A i \in 1..Len(top) :
                    Cardinality(RatingRowsOfTitle(t)) <= top[i].reviews

\* the rows of the chunks cs of f that pass validation
RECURSIVE CleanCount(_, _)
CleanCount(f, cs) ==
  IF cs = <<>> THEN 0
  ELSE (IF IsBookFile(f) THEN Len(BookClean(Head(cs), Head(cs)))
        ELSE Len(RatingClean(Head(cs))))
       + CleanCount(f, Tail(cs))

\* C16 as stated: when a call of process_single_file returns, the count it
\* returns and logs is the number of rows the call added to the store; a
\* book row discarded as a duplicate primary key is not counted.
C16_CountIsRowsWritten ==
  \A f \in FileNames :
    result[f].state = "returned" => result[f].value = result[f].written

\* C16: when a call of process_single_file returns, the count it returns
\* and logs is the number of rows of the file that passed validation and
\* were handed to the store.  It is never less than the rows the call
\* added; for a rating file it is the rows added; for a book file every
\* row discarded as a duplicate primary key is counted too.
C16_CountIsRowsSubmitted ==
  \A f \in FileNames :
    result[f].state = "returned" =>
      /\ result[f].value = CleanCount(f, FileChunks(f))
      /\ result[f].value >= result[f].written
      /\ IsRatingFile(f) => result[f].value = result[f].written

\* book2.csv has returned 2 after adding one row: its row of identifier 1
\* was discarded as a duplicate
C16_Witness ==
  /\ result[Book2].state = "returned"
  /\ result[Book2].value = 2
  /\ result[Book2].written = 1

\* the threads that are inside a call of process_single_file
Busy == { w \in Threads : task[w].pc # "idle" }

\* C17: in every state at most args.workers files are being processed, no
\* file is processed by two threads, a file is in the queue exactly while
\* it is pending and on one thread exactly while it is running, and only
\* the .csv files of the folder are ever handed out; within a run a file
\* goes from pending to running to its outcome once and never back; a
\* thread handles the chunks of its file one at a time in file order.
C17_BoundedOneTaskPerFile ==
  /\ [](/\ Cardinality(Busy) <= workers
        /\ \A v, w \in Busy : task[v].file = task[w].file => v = w
        /\ \A i, j \in 1..Len(queue) : queue[i] = queue[j] => i = j
        /\ \A f \in FileNames :
             /\ result[f].state = "pending" <=> f \in Range(queue)
             /\ result[f].state = "running" <=> \E w \in Busy : task[w].file = f
             /\ result[f].state # "none" => f \in Range(CsvFiles(folder)))
  /\ [][ /\ run' = run =>
              \A f \in FileNames :
                result'[f].state # result[f].state =>
                  \/ result[f].state = "pending"
                       /\ result'[f].state \in {"running", "raised"}
                  \/ result[f].state = "running"
                       /\ result'[f].state \in {"returned", "raised"}
         /\ \A w \in Threads :
              (w \in Busy /\ task'[w].pc # "idle" /\ run' = run) =>
                /\ task'[w].file = task[w].file
                /\ task'[w].k \in {task[w].k, task[w].k + 1}
                /\ task'[w].k = task[w].k + 1 =>
                     /\ books' = ChunkStep(books, ratings, task[w].file,
                                   FileChunks(task[w].file)[task'[w].k]).books
                     /\ ratings' = ChunkStep(books, ratings, task[w].file,
                                     FileChunks(task[w].file)[task'[w].k]).ratings
       ]_vars

\* both threads of a pool of two are in the second chunk of their files
\* while a third file waits in the queue
C17_Witness ==
  /\ workers = 2
  /\ Cardinality(Busy) = 2
  /\ \A w \in Busy : task[w].k = 1
  /\ queue # <<>>

(***************************************************************************)
(* Fair scheduling: a pool thread that can take a work item, process the   *)
(* next chunk or end its call eventually does, and so does the main thread *)
(* with the join, the index build and the aggregation.  Failures of the    *)
(* environment and new runs are never forced.                              *)
(***************************************************************************)
Fairness ==
  /\ \A w \in Threads :
       /\ WF_vars(Start(w))
       /\ WF_vars(ProcessChunk(w))
       /\ WF_vars(Finish(w))
  /\ WF_vars(JoinAll)
  /\ WF_vars(BuildIndexes)
  /\ WF_vars(Insights)

FairSpec == Spec /\ Fairness

\* C18: under fair scheduling every file that has been dispatched
\* eventually has an outcome (its call returned or raised), the pool drains
\* and the run reaches the index build and then the aggregation; no file
\* stays pending or running forever.  A file is pending or running only
\* while the run is in the pool, and from the pool the run reaches the
\* index build with the queue empty, no thread in a call and every .csv
\* file of the folder returned or raised.
C18_RunCompletes ==
  /\ [](\A f \in FileNames :
          result[f].state \in {"pending", "running"} => pc = "pool")
  /\ (pc = "pool") ~>
       (/\ pc = "index"
        /\ queue = <<>>
        /\ Busy = {}
        /\ \A f \in Range(CsvFiles(folder)) :
             result[f].state \in {"returned", "raised"})
  /\ (pc = "index") ~> (pc = "done")

\* a run over three .csv files has reached its end with one call raised
\* and another returned
C18_Witness ==
  /\ pc = "done"
  /\ Len(CsvFiles(folder)) >= 3
  /\ \A f \in Range(CsvFiles(folder)) : result[f].state \in {"returned", "raised"}
  /\ \E f \in FileNames : result[f].state = "raised"
  /\ \E f \in FileNames : result[f].state = "returned"

\* the rows the calls of the files in S have added, by their futures
RECURSIVE WrittenBy(_)
WrittenBy(S) ==
  IF S = {} THEN 0
  ELSE LET f == CHOOSE g \in S : TRUE
       IN  result[f].written + WrittenBy(S \ {f})

\* the rows the calls still running have added so far
RECURSIVE WrittenSoFar(_)
WrittenSoFar(W) ==
  IF W = {} THEN 0
  ELSE LET w == CHOOSE v \in W : TRUE
       IN  task[w].written + WrittenSoFar(W \ {w})

\* C19: a file is not atomic.  The step in which a call raises removes no
\* row: the rows its earlier chunks wrote, and the rows of every other
\* file, stay in books and ratings.  So in every state the rows added since
\* the run began are the rows added by all calls, those that raised
\* included, and the aggregation counts them.
C19_NoRollbackOnFailure ==
  /\ [][ \A f \in FileNames :
           (result[f].state = "running" /\ result'[f].state = "raised")
             => books' = books /\ ratings' = ratings ]_vars
  /\ [](run > 0 =>
          (Len(books) - Len(books0)) + Len(ratings)
            = WrittenBy(FileNames) + WrittenSoFar(Busy))
  /\ [](pc = "done" =>
          /\ insights.books_count = Len(books)
          /\ insights.ratings_count = Len(ratings))

\* user_rating_1.csv failed in its second chunk after its first chunk had
\* added two rows; the run has ended and the aggregation counted them
C19_Witness ==
  /\ pc = "done"
  /\ result[Rating1].state = "raised"
  /\ result[Rating1].written = 2
  /\ \E i \in 1..Len(ratings) : ratings[i].user_id = "u4"
  /\ insights.ratings_count = Len(ratings)

====
